---- MODULE Spec2Model ----
(***************************************************************************)
(* Fibonacci circuits of learn_halo2: the explicit-flag circuit            *)
(* (src/main.rs), the zero-test circuit (src/bin/fib_dynamic.rs) and the   *)
(* unpadded circuit (src/bin/fib_simple.rs).                               *)
(*                                                                         *)
(* The trace builders (synthesize and the assign_* routines) are modelled  *)
(* row by row; the gates are modelled as the polynomials that configure    *)
(* declares, evaluated in a prime field; the backend's check is modelled   *)
(* as "every gate polynomial is zero on every row, every copy constraint   *)
(* holds".  The field and MAX_N are scaled down: the field is the prime    *)
(* field of order P and MAX_N is a few rows, with P above every counter    *)
(* the model feeds in.                                                     *)
(***************************************************************************)
EXTENDS Integers, Sequences, FiniteSets, TLC

VARIABLES
    circuit,            \* which binary runs: "main", "dynamic" or "simple"
    circ,               \* the FibCircuit struct: [n, n_0, n_1]
    instance,           \* the public inputs handed to MockProver::run
    pc,                 \* position inside synthesize / main
    offset,             \* row cursor of the region
    iter,               \* iterations left in the running for loop
    advice,             \* assigned advice rows: row offset -> record of columns
    fixed,              \* assigned cells of the fixed column: row offset -> value
    selector,           \* rows on which selector / fib_selector is enabled
    first_row_selector, \* rows on which fist_row_selector is enabled
    copies,             \* copy constraints, public bindings included
    cells,              \* the cell handles synthesize keeps
    verdict,            \* result of the check: "none", "ok" or "err"
    prow,               \* an arbitrary assignment: offset of its newest row
    pprev,              \* an arbitrary assignment: the row before the newest
    pcur,               \* an arbitrary assignment: the newest row
    gadget              \* the zero-test gadget evaluated on one row

\* the state of an assignment that is not the builder's
proverVars == <<prow, pprev, pcur, gadget>>

vars == <<circuit, circ, instance, pc, offset, iter, advice, fixed, selector,
          first_row_selector, copies, cells, verdict, prow, pprev, pcur,
          gadget>>

(***************************************************************************)
(* Bounds of the model.                                                    *)
(***************************************************************************)
\* FibChip::MAX_N of fib_dynamic.rs (370 in the source), scaled down.
Dyn_MAX_N == 6
\* FibChip::MAX_N of main.rs (300 in the source), scaled down.
Main_MAX_N == 5
\* Largest iteration count fed to the unpadded circuit.
Simple_MaxN == 5
\* Seeds n_0, n_1 range over 0..MaxSeed.
MaxSeed == 2
\* The field is the prime field whose order is the least prime >= MinModulus.
MinModulus == 11
\* Rows by which an arbitrary assignment of fib_dynamic.rs is extended.
GateRows == 2

IsPrime(p) == p > 1 /\ \A d \in 2..(p - 1) : p % d # 0

P == CHOOSE p \in MinModulus..(2 * MinModulus) :
        IsPrime(p) /\ \A q \in MinModulus..(p - 1) : ~IsPrime(q)

F == 0..(P - 1)

(***************************************************************************)
(* Field arithmetic (FieldExt).                                            *)
(***************************************************************************)
Add(a, b) == (a + b) % P

Sub(a, b) == (a - b + P) % P

Mul(a, b) == (a * b) % P

\* invert().unwrap_or_else(F::zero): the inverse, or zero for zero
Invert(a) == IF a = 0 THEN 0 ELSE CHOOSE x \in F : Mul(a, x) = 1

\* get_lower_32 of a field element: the low 32 bits of its canonical
\* representative, which is the representative itself since P < 2^32
GetLower32(a) == a

AllZero(polys) == \A i \in 1..Len(polys) : polys[i] = 0

\* Reference Fibonacci, independent of the circuits: fib(0) = fib(1) = 1.
RECURSIVE FibPair(_)
FibPair(k) == IF k = 0 THEN <<1, 1>>
              ELSE LET p == FibPair(k - 1) IN <<p[2], Add(p[1], p[2])>>

Fib(k) == FibPair(k)[1]

(***************************************************************************)
(* Cells and copy constraints.                                             *)
(***************************************************************************)
Cell(col, row) == <<col, row>>

CellValue(adv, inst, cell) ==
    CASE cell[1] = "instance" -> inst[cell[2] + 1]
      [] cell[1] = "constant" -> cell[2]
      [] OTHER -> adv[cell[2]][cell[1]]

CopiesHold(adv, inst, cps) ==
    \A c \in cps : CellValue(adv, inst, c[1]) = CellValue(adv, inst, c[2])

ZeroRow == [n |-> 0, l |-> 0, r |-> 0, n_inv |-> 0, s |-> 0,
            a |-> 0, b |-> 0, c |-> 0]

\* a queried row: its assigned cells, zero where nothing was assigned
Query(adv, row) == IF row \in DOMAIN adv THEN adv[row] ELSE ZeroRow

Bit(b) == IF b THEN 1 ELSE 0

(***************************************************************************)
(* fib_dynamic.rs: gates.                                                  *)
(***************************************************************************)
\* gate "n inv" without the inner factor n: n * (1 - n_inv)
Dyn_GateNInv_NoProduct(s, cur) ==
    << Mul(s, Mul(cur.n, Sub(1, cur.n_inv))) >>

\* gate "n inv": n * (1 - n * n_inv)
Dyn_GateNInv(s, cur) ==
    << Mul(s, Mul(cur.n, Sub(1, Mul(cur.n, cur.n_inv)))) >>

Dyn_IsNZero(cur) == Sub(1, Mul(cur.n, cur.n_inv))

\* gate "fib" without the constraint that freezes r when n = 0
Dyn_GateFib_NoFreeze(s, cur, nxt) ==
    LET is_n_zero == Sub(1, Mul(cur.n, cur.n_inv)) IN
    << Mul(s, Sub(nxt.l, cur.r)),
       0,
       Mul(Mul(s, is_n_zero), nxt.n),
       Mul(Mul(s, Sub(1, is_n_zero)), Sub(Add(cur.l, cur.r), nxt.r)),
       Mul(Mul(s, Sub(1, is_n_zero)), Sub(Sub(cur.n, nxt.n), 1)) >>

\* gate "fib" without the constraint that decrements a nonzero counter
Dyn_GateFib_NoDecrement(s, cur, nxt) ==
    LET is_n_zero == Sub(1, Mul(cur.n, cur.n_inv)) IN
    << Mul(s, Sub(nxt.l, cur.r)),
       Mul(Mul(s, is_n_zero), Sub(nxt.r, cur.r)),
       Mul(Mul(s, is_n_zero), nxt.n),
       Mul(Mul(s, Sub(1, is_n_zero)), Sub(Add(cur.l, cur.r), nxt.r)),
       0 >>

\* gate "fib"
Dyn_GateFib(s, cur, nxt) ==
    LET is_n_zero == Dyn_IsNZero(cur) IN
    << Mul(s, Sub(nxt.l, cur.r)),
       Mul(Mul(s, is_n_zero), Sub(nxt.r, cur.r)),
       Mul(Mul(s, is_n_zero), nxt.n),
       Mul(Mul(s, Sub(1, is_n_zero)), Sub(Add(cur.l, cur.r), nxt.r)),
       Mul(Mul(s, Sub(1, is_n_zero)), Sub(Sub(cur.n, nxt.n), 1)) >>

Dyn_GatesHoldAt(adv, sel, row) ==
    LET s == Bit(row \in sel) IN
    /\ AllZero(Dyn_GateNInv(s, Query(adv, row)))
    /\ AllZero(Dyn_GateFib(s, Query(adv, row), Query(adv, row + 1)))

\* MockProver::verify for the fib_dynamic circuit
Dyn_Verify(adv, sel, cps, inst) ==
    /\ \A row \in sel : row \in DOMAIN adv /\ row + 1 \in DOMAIN adv
    /\ \A row \in DOMAIN adv : Dyn_GatesHoldAt(adv, sel, row)
    /\ CopiesHold(adv, inst, cps)

(***************************************************************************)
(* fib_dynamic.rs: trace builder.                                          *)
(***************************************************************************)
\* assign_next_row without the freeze: the counter is always decremented
Dyn_NextRow_NoFreeze(n, l, r, n_inv) ==
    [n |-> Sub(n, 1), l |-> r, r |-> Add(l, r), n_inv |-> Invert(Sub(n, 1))]

\* assign_next_row storing the inverse of the current counter, not the next
Dyn_NextRow_StaleInverse(n, l, r, n_inv) ==
    LET is_n_zero == Sub(1, Mul(n, n_inv))
        next_n == Add(Mul(is_n_zero, n), Mul(Sub(1, is_n_zero), Sub(n, 1)))
        next_r == Add(Mul(is_n_zero, r), Mul(Sub(1, is_n_zero), Add(l, r)))
    IN [n |-> next_n, l |-> r, r |-> next_r, n_inv |-> Invert(n)]

\* the row assign_next_row computes from the values of the current row
Dyn_NextRow(n, l, r, n_inv) ==
    LET is_n_zero == Sub(1, Mul(n, n_inv))
        next_n == Add(Mul(is_n_zero, n), Mul(Sub(1, is_n_zero), Sub(n, 1)))
        next_l == r
        next_r == Add(Mul(is_n_zero, r), Mul(Sub(1, is_n_zero), Add(l, r)))
    IN [n |-> next_n, l |-> next_l, r |-> next_r, n_inv |-> Invert(next_n)]

\* assign_next_row enabling the selector on every row it assigns
Dyn_EnablesSelector_LastToo(current_row_offset) ==
    current_row_offset # Dyn_MAX_N - 1

\* rows on which assign_next_row enables the selector
Dyn_EnablesSelector(current_row_offset) == current_row_offset # Dyn_MAX_N - 2

\* assign_setup without the selector on row 0
Dyn_AssignSetup_NoSelector ==
    /\ circuit = "dynamic" /\ pc = "setup"
    /\ selector' = {}
    /\ advice' = (0 :> [n |-> circ.n, l |-> circ.n_0, r |-> circ.n_1,
                        n_inv |-> Invert(circ.n)])
    /\ cells' = [cells EXCEPT !.initial_n = Cell("n", 0), !.l0 = Cell("l", 0),
                              !.l = Cell("l", 0)]
    /\ offset' = 0
    /\ pc' = "next_row"
    /\ UNCHANGED proverVars
    /\ UNCHANGED <<circuit, circ, instance, iter, fixed, first_row_selector,
                   copies, verdict>>

Dyn_AssignSetup ==
    /\ circuit = "dynamic" /\ pc = "setup"
    /\ selector' = {0}
    /\ advice' = (0 :> [n |-> circ.n, l |-> circ.n_0, r |-> circ.n_1,
                        n_inv |-> Invert(circ.n)])
    /\ cells' = [cells EXCEPT !.initial_n = Cell("n", 0), !.l0 = Cell("l", 0),
                              !.l = Cell("l", 0)]
    /\ offset' = 0
    /\ pc' = "next_row"
    /\ UNCHANGED proverVars
    /\ UNCHANGED <<circuit, circ, instance, iter, fixed, first_row_selector,
                   copies, verdict>>

Dyn_AssignNextRow ==
    /\ circuit = "dynamic" /\ pc = "next_row"
    /\ LET cur == advice[offset]
           nxt == Dyn_NextRow(cur.n, cur.l, cur.r, cur.n_inv)
       IN /\ selector' = IF Dyn_EnablesSelector(offset)
                         THEN selector \cup {offset + 1} ELSE selector
          /\ advice' = advice @@ ((offset + 1) :> nxt)
    /\ cells' = IF offset = 0
                THEN [cells EXCEPT !.l1 = Cell("l", 1), !.l = Cell("l", 1)]
                ELSE [cells EXCEPT !.l = Cell("l", offset + 1)]
    /\ offset' = offset + 1
    \* for row in 2..MAX_N: the call for row - 1 = offset + 1 follows
    /\ pc' = IF offset + 2 < Dyn_MAX_N THEN "next_row" ELSE "expose"
    /\ UNCHANGED proverVars
    /\ UNCHANGED <<circuit, circ, instance, iter, fixed, first_row_selector,
                   copies, verdict>>

Dyn_ExposePublic ==
    /\ circuit = "dynamic" /\ pc = "expose"
    /\ copies' = copies \cup { <<cells.l0, Cell("instance", 0)>>,
                               <<cells.l1, Cell("instance", 1)>>,
                               <<cells.initial_n, Cell("instance", 2)>>,
                               <<cells.l, Cell("instance", 3)>> }
    /\ pc' = "verify"
    /\ UNCHANGED proverVars
    /\ UNCHANGED <<circuit, circ, instance, offset, iter, advice, fixed,
                   selector, first_row_selector, cells, verdict>>

Dyn_Check ==
    /\ circuit = "dynamic" /\ pc = "verify"
    /\ verdict' = IF Dyn_Verify(advice, selector, copies, instance)
                  THEN "ok" ELSE "err"
    /\ pc' = "done"
    /\ UNCHANGED proverVars
    /\ UNCHANGED <<circuit, circ, instance, offset, iter, advice, fixed,
                   selector, first_row_selector, copies, cells>>

(***************************************************************************)
(* main.rs: gates.                                                         *)
(***************************************************************************)
\* gate "start status"
Main_GateStartStatus(first_row, fixed_cur, cur) ==
    << Mul(Mul(Mul(first_row, Sub(fixed_cur, cur.l)), Sub(fixed_cur, cur.r)),
           Sub(fixed_cur, cur.s)) >>

\* gate "custom selector" without the polynomial on the next row's s
Main_GateCustomSelector_BoolOnly(fib_s, cur, nxt) ==
    << Mul(Mul(fib_s, cur.s), Sub(1, cur.s)),
       0 >>

\* gate "custom selector"
Main_GateCustomSelector(fib_s, cur, nxt) ==
    << Mul(Mul(fib_s, cur.s), Sub(1, cur.s)),
       Mul(Mul(fib_s, nxt.s), Sub(1, cur.s)) >>

\* gate "decreasing counter"
Main_GateDecreasingCounter(fib_s, cur, nxt) ==
    << Mul(Mul(fib_s, cur.s), Sub(Sub(cur.n, nxt.n), 1)),
       Mul(Mul(fib_s, Sub(1, cur.s)), nxt.n) >>

\* gate "fib"
Main_GateFib(fib_s, cur, nxt) ==
    << Mul(Mul(fib_s, cur.s), Sub(Add(cur.l, cur.r), nxt.r)),
       Mul(Mul(fib_s, Sub(1, cur.s)), Sub(nxt.r, cur.r)) >>

QueryFixed(fx, row) == IF row \in DOMAIN fx THEN fx[row] ELSE 0

Main_GatesHoldAt(adv, fx, sel, first, row) ==
    LET fib_s == Bit(row \in sel)
        first_row == Bit(row \in first)
        cur == Query(adv, row)
        nxt == Query(adv, row + 1)
    IN /\ AllZero(Main_GateStartStatus(first_row, QueryFixed(fx, row), cur))
       /\ AllZero(Main_GateCustomSelector(fib_s, cur, nxt))
       /\ AllZero(Main_GateDecreasingCounter(fib_s, cur, nxt))
       /\ AllZero(Main_GateFib(fib_s, cur, nxt))

\* MockProver::verify for the main.rs circuit
Main_Verify(adv, fx, sel, first, cps, inst) ==
    /\ \A row \in sel : row \in DOMAIN adv /\ row + 1 \in DOMAIN adv
    /\ \A row \in first : row \in DOMAIN adv /\ row \in DOMAIN fx
    /\ \A row \in DOMAIN adv : Main_GatesHoldAt(adv, fx, sel, first, row)
    /\ CopiesHold(adv, inst, cps)

(***************************************************************************)
(* main.rs: trace builder.                                                 *)
(***************************************************************************)
\* the loop of synthesize written `for _ in 1..n`
Main_ComputationalIterations_OneMore(n32) == IF n32 > 1 THEN n32 - 1 ELSE 0

\* iterations of `for _ in 1..(n - 1)`, n = self.n.get_lower_32() >= 1
Main_ComputationalIterations(n32) == IF n32 - 1 > 1 THEN n32 - 2 ELSE 0

\* iterations of `for _ in n as usize..(MAX_N - 1)`
Main_PaddingIterations(n32) ==
    IF Main_MAX_N - 1 > n32 THEN Main_MAX_N - 1 - n32 ELSE 0

\* assign_computational_row ignoring is_last: the flag s stays 1
Main_ComputationalRow_FlagStays(is_last, last_n, last_l, last_r) ==
    [n |-> Sub(CellValue(advice, instance, last_n), 1),
     l |-> CellValue(advice, instance, last_r),
     r |-> Add(CellValue(advice, instance, last_l),
               CellValue(advice, instance, last_r)),
     s |-> 1]

\* the row assign_computational_row assigns at `offset`
Main_ComputationalRow(is_last, last_n, last_l, last_r) ==
    [n |-> Sub(CellValue(advice, instance, last_n), 1),
     l |-> CellValue(advice, instance, last_r),
     r |-> Add(CellValue(advice, instance, last_l),
               CellValue(advice, instance, last_r)),
     s |-> IF is_last THEN 0 ELSE 1]

\* the row(s) assign_padding_row assigns at `offset` (and offset + 1)
Main_PaddingRows(off, is_last, result) ==
    LET row == [n |-> 0, l |-> CellValue(advice, instance, result),
                r |-> CellValue(advice, instance, result), s |-> 0]
    IN IF is_last THEN (off :> row) @@ ((off + 1) :> row) ELSE (off :> row)

Main_AssignFirstRow ==
    /\ circuit = "main" /\ pc = "setup"
    /\ first_row_selector' = {offset}
    /\ selector' = {offset}
    /\ advice' = (offset :> [n |-> instance[1], l |-> 1, r |-> 1, s |-> 1])
    /\ fixed' = (offset :> 1)
    /\ copies' = { <<Cell("instance", 0), Cell("n", offset)>>,
                   <<Cell("constant", 1), Cell("l", offset)>>,
                   <<Cell("constant", 1), Cell("r", offset)>>,
                   <<Cell("constant", 1), Cell("s", offset)>> }
    /\ cells' = [cells EXCEPT !.n = Cell("n", offset), !.l = Cell("l", offset),
                              !.r = Cell("r", offset),
                              !.initial_n = Cell("n", offset)]
    /\ offset' = offset + 1
    /\ LET n32 == GetLower32(circ.n) IN
       IF n32 = 0
       THEN \* `n - 1` on u32 zero: the debug build panics, the release build
            \* wraps and runs out of rows
            /\ pc' \in {"panic", "error"}
            /\ iter' = 0
       ELSE /\ iter' = Main_ComputationalIterations(n32)
            /\ pc' = IF Main_ComputationalIterations(n32) > 0
                     THEN "computational" ELSE "last_computational"
    /\ UNCHANGED proverVars
    /\ UNCHANGED <<circuit, circ, instance, verdict>>

Main_AssignComputationalRow ==
    /\ circuit = "main" /\ pc = "computational"
    /\ selector' = selector \cup {offset}
    /\ advice' = advice @@
          (offset :> Main_ComputationalRow(FALSE, cells.n, cells.l, cells.r))
    /\ copies' = copies \cup { <<cells.r, Cell("l", offset)>> }
    /\ cells' = [cells EXCEPT !.n = Cell("n", offset), !.l = Cell("l", offset),
                              !.r = Cell("r", offset)]
    /\ offset' = offset + 1
    /\ iter' = iter - 1
    /\ pc' = IF iter - 1 > 0 THEN "computational" ELSE "last_computational"
    /\ UNCHANGED proverVars
    /\ UNCHANGED <<circuit, circ, instance, fixed, first_row_selector, verdict>>

Main_AssignLastComputationalRow ==
    /\ circuit = "main" /\ pc = "last_computational"
    /\ selector' = selector \cup {offset}
    /\ advice' = advice @@
          (offset :> Main_ComputationalRow(TRUE, cells.n, cells.l, cells.r))
    /\ copies' = copies \cup { <<cells.r, Cell("l", offset)>> }
    /\ cells' = [cells EXCEPT !.r = Cell("r", offset)]
    /\ offset' = offset + 1
    /\ iter' = Main_PaddingIterations(GetLower32(circ.n))
    /\ pc' = IF Main_PaddingIterations(GetLower32(circ.n)) > 0
             THEN "padding" ELSE "last_padding"
    /\ UNCHANGED proverVars
    /\ UNCHANGED <<circuit, circ, instance, fixed, first_row_selector, verdict>>

Main_AssignPaddingRow ==
    /\ circuit = "main" /\ pc = "padding"
    /\ selector' = selector \cup {offset}
    /\ advice' = Main_PaddingRows(offset, FALSE, cells.r) @@ advice
    /\ cells' = [cells EXCEPT !.r = Cell("r", offset)]
    /\ offset' = offset + 1
    /\ iter' = iter - 1
    /\ pc' = IF iter - 1 > 0 THEN "padding" ELSE "last_padding"
    /\ UNCHANGED proverVars
    /\ UNCHANGED <<circuit, circ, instance, fixed, first_row_selector, copies,
                   verdict>>

Main_AssignLastPaddingRow ==
    /\ circuit = "main" /\ pc = "last_padding"
    /\ selector' = selector \cup {offset}
    /\ advice' = Main_PaddingRows(offset, TRUE, cells.r) @@ advice
    /\ cells' = [cells EXCEPT !.r = Cell("r", offset)]
    /\ pc' = "expose"
    /\ UNCHANGED proverVars
    /\ UNCHANGED <<circuit, circ, instance, offset, iter, fixed,
                   first_row_selector, copies, verdict>>

Main_ExposePublic ==
    /\ circuit = "main" /\ pc = "expose"
    /\ copies' = copies \cup { <<cells.initial_n, Cell("instance", 0)>>,
                               <<cells.r, Cell("instance", 1)>> }
    /\ pc' = "verify"
    /\ UNCHANGED proverVars
    /\ UNCHANGED <<circuit, circ, instance, offset, iter, advice, fixed,
                   selector, first_row_selector, cells, verdict>>

Main_Check ==
    /\ circuit = "main" /\ pc = "verify"
    /\ verdict' = IF Main_Verify(advice, fixed, selector, first_row_selector,
                                 copies, instance)
                  THEN "ok" ELSE "err"
    /\ pc' = "done"
    /\ UNCHANGED proverVars
    /\ UNCHANGED <<circuit, circ, instance, offset, iter, advice, fixed,
                   selector, first_row_selector, copies, cells>>

(***************************************************************************)
(* fib_simple.rs: gate and trace builder.                                  *)
(***************************************************************************)
\* gate "fib": s * (a + b - c)
Simple_GateFib(s, cur) == << Mul(s, Sub(Add(cur.a, cur.b), cur.c)) >>

\* MockProver::verify for the fib_simple circuit
Simple_Verify(adv, sel, cps, inst) ==
    /\ \A row \in sel : row \in DOMAIN adv
    /\ \A row \in DOMAIN adv :
          AllZero(Simple_GateFib(Bit(row \in sel), Query(adv, row)))
    /\ CopiesHold(adv, inst, cps)

\* the loop of synthesize run once per requested row, `0..n`
Simple_Iterations_FromZero(n32) == n32

\* iterations of `for row in 1..self.n.get_lower_32() as usize`
Simple_Iterations(n32) == IF n32 > 1 THEN n32 - 1 ELSE 0

Simple_AssignSetup ==
    /\ circuit = "simple" /\ pc = "setup"
    /\ selector' = {0}
    /\ advice' = (0 :> [a |-> circ.n_0, b |-> circ.n_1,
                        c |-> Add(circ.n_0, circ.n_1)])
    /\ cells' = [cells EXCEPT !.initial_a = Cell("a", 0),
                              !.initial_b = Cell("b", 0),
                              !.b = Cell("b", 0), !.c = Cell("c", 0)]
    /\ offset' = 1
    /\ iter' = Simple_Iterations(GetLower32(circ.n))
    /\ pc' = IF Simple_Iterations(GetLower32(circ.n)) > 0 THEN "row" ELSE "expose"
    /\ UNCHANGED proverVars
    /\ UNCHANGED <<circuit, circ, instance, fixed, first_row_selector, copies,
                   verdict>>

\* the row assign_row assigns at `offset` from the cells last_b and last_c
Simple_Row(last_b, last_c) ==
    LET a == CellValue(advice, instance, last_b)
        b == CellValue(advice, instance, last_c)
    IN [a |-> a, b |-> b, c |-> Add(a, b)]

Simple_AssignRow ==
    /\ circuit = "simple" /\ pc = "row"
    /\ selector' = selector \cup {offset}
    /\ advice' = advice @@ (offset :> Simple_Row(cells.b, cells.c))
    /\ copies' = copies \cup { <<cells.b, Cell("a", offset)>>,
                               <<cells.c, Cell("b", offset)>> }
    /\ cells' = [cells EXCEPT !.b = Cell("b", offset), !.c = Cell("c", offset)]
    /\ offset' = offset + 1
    /\ iter' = iter - 1
    /\ pc' = IF iter - 1 > 0 THEN "row" ELSE "expose"
    /\ UNCHANGED proverVars
    /\ UNCHANGED <<circuit, circ, instance, fixed, first_row_selector, verdict>>

Simple_ExposePublic ==
    /\ circuit = "simple" /\ pc = "expose"
    /\ copies' = copies \cup { <<cells.initial_a, Cell("instance", 0)>>,
                               <<cells.initial_b, Cell("instance", 1)>>,
                               <<cells.c, Cell("instance", 2)>> }
    /\ pc' = "verify"
    /\ UNCHANGED proverVars
    /\ UNCHANGED <<circuit, circ, instance, offset, iter, advice, fixed,
                   selector, first_row_selector, cells, verdict>>

Simple_Check ==
    /\ circuit = "simple" /\ pc = "verify"
    /\ verdict' = IF Simple_Verify(advice, selector, copies, instance)
                  THEN "ok" ELSE "err"
    /\ pc' = "done"
    /\ UNCHANGED proverVars
    /\ UNCHANGED <<circuit, circ, instance, offset, iter, advice, fixed,
                   selector, first_row_selector, copies, cells>>

(***************************************************************************)
(* Properties of the traces the builders produce.                          *)
(***************************************************************************)
Built == pc \in {"verify", "done"}

Dyn_InRange == circuit = "dynamic" /\ circ.n \in 1..(Dyn_MAX_N - 1)

Main_InRange == circuit = "main" /\ circ.n \in 1..(Main_MAX_N - 1)

\* the value of a cell of the built trace
Value(cell) == CellValue(advice, instance, cell)

\* C1: fib_dynamic.rs, seeds (0, 1), 0 < n < MAX_N: every selector-enabled
\* row of the built trace satisfies the gates "n inv" and "fib", and the l
\* cell of row MAX_N - 1, bound to instance[3], holds fib(n).
C1_DynResultIsFib ==
    (Built /\ Dyn_InRange /\ circ.n_0 = 0 /\ circ.n_1 = 1) =>
        /\ \A row \in selector : Dyn_GatesHoldAt(advice, selector, row)
        /\ cells.l = Cell("l", Dyn_MAX_N - 1)
        /\ Value(cells.l) = Fib(circ.n)

\* C2: main.rs, 0 < n < MAX_N, public counter equal to n: every row with a
\* selector enabled satisfies the four gates, and the r cell bound to
\* instance[1] holds fib(n).
C2_MainResultIsFib ==
    (Built /\ Main_InRange /\ instance[1] = circ.n) =>
        /\ \A row \in selector \cup first_row_selector :
              Main_GatesHoldAt(advice, fixed, selector, first_row_selector, row)
        /\ <<cells.r, Cell("instance", 1)>> \in copies
        /\ Value(cells.r) = Fib(circ.n)

\* the public inputs that differ from the true ones in the result entry only
TruthfulButResult ==
    \/ circuit = "main" /\ instance[1] = circ.n
    \/ /\ circuit = "dynamic" /\ circ.n_0 = 0 /\ circ.n_1 = 1
       /\ instance[1] = 0 /\ instance[2] = 1 /\ instance[3] = circ.n

ResultEntry == IF circuit = "main" THEN instance[2] ELSE instance[4]

\* C3: both padded circuits, 0 < n < MAX_N: the check succeeds when the result
\* entry of the public inputs is fib(n) and reports an error when it is not.
C3_CheckerAcceptsExactlyFib ==
    (pc = "done" /\ (Main_InRange \/ Dyn_InRange) /\ TruthfulButResult) =>
        /\ verdict \in {"ok", "err"}
        /\ verdict = "ok" <=> ResultEntry = Fib(circ.n)

\* The sequence of fib_simple.rs computed independently:
\* g(0) = n_0, g(1) = n_1, g(k) = g(k - 1) + g(k - 2); c[i] = g(i + 2).
RECURSIVE SeedPair(_, _, _)
SeedPair(k, x, y) == IF k = 0 THEN <<x, y>>
                     ELSE LET p == SeedPair(k - 1, x, y)
                          IN <<p[2], Add(p[1], p[2])>>

SeedSeq(k, x, y) == SeedPair(k, x, y)[1]

\* C4: fib_simple.rs, n >= 1: exactly rows 0..n-1 are assigned, each with
\* a + b = c; rows i >= 1 copy a[i] from b[i-1] and b[i] from c[i-1]; the c
\* cell of row n - 1 is bound to instance[2] and holds the n-th value of the
\* sequence; the check accepts exactly the public inputs [n_0, n_1, c[n-1]].
C4_SimpleTrace ==
    (circuit = "simple" /\ pc = "done" /\ circ.n >= 1) =>
        /\ DOMAIN advice = 0..(circ.n - 1)
        /\ selector = DOMAIN advice
        /\ \A i \in DOMAIN advice : Add(advice[i].a, advice[i].b) = advice[i].c
        /\ \A i \in 1..(circ.n - 1) :
              /\ <<Cell("b", i - 1), Cell("a", i)>> \in copies
              /\ <<Cell("c", i - 1), Cell("b", i)>> \in copies
              /\ advice[i].a = advice[i - 1].b
              /\ advice[i].b = advice[i - 1].c
        /\ <<Cell("a", 0), Cell("instance", 0)>> \in copies
        /\ <<Cell("b", 0), Cell("instance", 1)>> \in copies
        /\ <<Cell("c", circ.n - 1), Cell("instance", 2)>> \in copies
        /\ advice[circ.n - 1].c = SeedSeq(circ.n + 1, circ.n_0, circ.n_1)
        /\ verdict = "ok" <=>
              instance = <<circ.n_0, circ.n_1, advice[circ.n - 1].c>>
        /\ instance[1] # circ.n_0 => verdict = "err"

\* C4 witness: n = 5 with seeds (0, 1) gives 8, and [1, 1, 8] is rejected
C4_Witness ==
    /\ circuit = "simple" /\ pc = "done"
    /\ circ = [n |-> 5, n_0 |-> 0, n_1 |-> 1]
    /\ advice[4].c = 8
    /\ instance = <<1, 1, 8>>
    /\ verdict = "err"

\* the bound MAX_N of the running circuit
MaxN == IF circuit = "main" THEN Main_MAX_N ELSE Dyn_MAX_N

\* C6: n >= MAX_N is rejected before assignment: synthesize of main.rs and of
\* fib_dynamic.rs assigns no cell and ends in an error.
C6_OutOfBoundRejected ==
    (circuit \in {"main", "dynamic"} /\ GetLower32(circ.n) >= MaxN) =>
        /\ advice = <<>>
        /\ pc \in {"setup", "error"}

\* C7: fib_dynamic.rs, 0 < n < MAX_N: rows 0..n-1 are live (counter n - i # 0,
\* is_zero = 0, successor (l, r) -> (r, l + r) with the counter decremented);
\* the counter is 0 from row n on and rows n+1..MAX_N-1 repeat the r of row n.
C7_DynExactlyNLiveRows ==
    (Built /\ Dyn_InRange) =>
        /\ DOMAIN advice = 0..(Dyn_MAX_N - 1)
        /\ \A i \in 0..(circ.n - 1) :
              /\ advice[i].n = circ.n - i
              /\ advice[i].n # 0
              /\ Dyn_IsNZero(advice[i]) = 0
              /\ advice[i + 1].n = Sub(advice[i].n, 1)
              /\ advice[i + 1].l = advice[i].r
              /\ advice[i + 1].r = Add(advice[i].l, advice[i].r)
        /\ \A i \in circ.n..(Dyn_MAX_N - 1) :
              /\ advice[i].n = 0
              /\ Dyn_IsNZero(advice[i]) = 1
              /\ advice[i].r = advice[circ.n].r

\* C7 witness: a built trace with live rows followed by frozen rows
C7_Witness ==
    /\ Built /\ circuit = "dynamic" /\ circ.n = 2
    /\ advice[1].n = 1 /\ advice[2].n = 0
    /\ advice[Dyn_MAX_N - 1].n = 0
    /\ advice[Dyn_MAX_N - 1].r = advice[2].r

\* C10: fixed trace length: the rows synthesize assigns do not depend on n:
\* rows 0..MAX_N-1 in fib_dynamic.rs, rows 0..MAX_N in main.rs.
C10_FixedTraceLength ==
    /\ (Built /\ Dyn_InRange) => DOMAIN advice = 0..(Dyn_MAX_N - 1)
    /\ (Built /\ Main_InRange) => DOMAIN advice = 0..Main_MAX_N

\* C11: public binding by position: fib_dynamic.rs binds instance[0] to l of
\* row 0, instance[1] to l of row 1 (which holds seed1, the r of row 0),
\* instance[2] to the counter of row 0 and instance[3] to l of row MAX_N - 1;
\* main.rs binds instance[0] to the counter of row 0 and instance[1] to the r
\* cell of one row, the same row (MAX_N - 1) for every n with 0 < n < MAX_N.
C11_BindingByPosition ==
    /\ (Built /\ Dyn_InRange) =>
          /\ <<Cell("l", 0), Cell("instance", 0)>> \in copies
          /\ <<Cell("l", 1), Cell("instance", 1)>> \in copies
          /\ <<Cell("n", 0), Cell("instance", 2)>> \in copies
          /\ <<Cell("l", Dyn_MAX_N - 1), Cell("instance", 3)>> \in copies
          /\ advice[1].l = circ.n_1 /\ advice[0].r = circ.n_1
    /\ (Built /\ Main_InRange) =>
          /\ <<Cell("n", 0), Cell("instance", 0)>> \in copies
          /\ <<Cell("r", Main_MAX_N - 1), Cell("instance", 1)>> \in copies

\* the rows of the built trace whose active flag s is 1
Main_LiveRows == {i \in DOMAIN advice : advice[i].s = 1}

\* C12: main.rs layout for 2 <= n < MAX_N and public inputs [n, v]: row i,
\* 0 <= i <= n - 1, holds counter n - i; s = 1 on rows 0..n-2 and s = 0 on
\* row n - 1 and on every later row; row n - 1 holds counter 1, l = fib(n-1)
\* and r = fib(n); every later assigned row holds counter 0, l = r = fib(n)
\* and s = 0; row 0 holds l = r = s = 1 and fixed = 1.
C12_MainLayout ==
    (Built /\ circuit = "main" /\ circ.n \in 2..(Main_MAX_N - 1)
           /\ instance[1] = circ.n) =>
        /\ \A i \in 0..(circ.n - 1) : advice[i].n = circ.n - i
        /\ \A i \in 0..(circ.n - 2) : advice[i].s = 1
        /\ \A i \in DOMAIN advice : i >= circ.n - 1 => advice[i].s = 0
        /\ advice[circ.n - 1] =
              [n |-> 1, l |-> Fib(circ.n - 1), r |-> Fib(circ.n), s |-> 0]
        /\ \A i \in DOMAIN advice : i >= circ.n =>
              advice[i] = [n |-> 0, l |-> Fib(circ.n), r |-> Fib(circ.n),
                           s |-> 0]
        /\ Main_MAX_N - 1 \in DOMAIN advice
        /\ advice[0].l = 1 /\ advice[0].r = 1 /\ advice[0].s = 1
        /\ fixed[0] = 1

\* C12 witness: the built trace for n = 4: counter 1 with (fib(3), fib(4)) on
\* the first row with s = 0, counter 0 and fib(4) below it
C12_Witness ==
    /\ Built /\ circuit = "main" /\ circ.n = 4 /\ instance[1] = 4
    /\ advice[2].s = 1
    /\ advice[3] = [n |-> 1, l |-> 3, r |-> 5, s |-> 0]
    /\ advice[4] = [n |-> 0, l |-> 5, r |-> 5, s |-> 0]

\* the first row of the built trace whose active flag is 0
Main_FirstFrozenRow ==
    CHOOSE i \in DOMAIN advice :
        advice[i].s = 0 /\ \A j \in DOMAIN advice : j < i => advice[j].s = 1

\* rows below the first row with s = 0 repeat its r, with counter 0 and s = 0
Main_FrozenBelow ==
    \A i \in DOMAIN advice : i > Main_FirstFrozenRow =>
        /\ advice[i].n = 0
        /\ advice[i].s = 0
        /\ advice[i].r = advice[Main_FirstFrozenRow].r

\* C13 as stated: main.rs, 0 < n < MAX_N: exactly n rows of the built trace
\* have the active flag s = 1 before s falls to 0, and every row after that
\* is a frozen copy of the final (counter = 0, r) state.
C13_MainExactlyNLiveRows ==
    (Built /\ Main_InRange) =>
        /\ Main_LiveRows = 0..(circ.n - 1)
        /\ Main_FrozenBelow

\* C13 as amended: main.rs, 0 < n < MAX_N: the rows with s = 1 are rows
\* 0..n-2, n - 1 of them, for n >= 2 and row 0 alone for n = 1; s = 0 on every
\* later row, and the rows after the first row with s = 0 hold counter 0 and
\* that row's r.
C13_MainLiveRows ==
    (Built /\ Main_InRange) =>
        /\ Main_LiveRows =
              IF circ.n >= 2 THEN 0..(circ.n - 2) ELSE {0}
        /\ Cardinality(Main_LiveRows) =
              IF circ.n >= 2 THEN circ.n - 1 ELSE 1
        /\ Main_FirstFrozenRow = IF circ.n >= 2 THEN circ.n - 1 ELSE 1
        /\ Main_FrozenBelow

\* C13 witness: n = 4 is built with three live rows, frozen from row 3 on
C13_Witness ==
    /\ Built /\ circuit = "main" /\ circ.n = 4
    /\ Main_LiveRows = {0, 1, 2}
    /\ advice[3].s = 0 /\ advice[4].r = advice[3].r /\ advice[4].n = 0

\* the first row of a padded circuit has been assigned
FirstRowAssigned == circuit \in {"main", "dynamic"} /\ 0 \in DOMAIN advice

\* row 0 holds the seeds: counter and sequence values from the inputs
\* (fib_dynamic.rs), counter from instance[0] and l = r = s = 1 from the
\* constant, with fixed = 1 (main.rs)
FirstRowSeeded ==
    /\ circuit = "dynamic" =>
          /\ advice[0].n = circ.n
          /\ advice[0].l = circ.n_0
          /\ advice[0].r = circ.n_1
    /\ circuit = "main" =>
          /\ advice[0] = [n |-> instance[1], l |-> 1, r |-> 1, s |-> 1]
          /\ fixed[0] = 1
          /\ first_row_selector = {0}

\* C17 as stated: the first row is special-cased: row 0 is seeded from the
\* inputs / fixed constants and only the selector of the initial-state gate
\* is enabled on it; the step selector is enabled only from row 1 on.
C17_FirstRowOnlyInitialGate ==
    FirstRowAssigned =>
        /\ FirstRowSeeded
        /\ 0 \notin selector

\* C17 as amended: row 0 is seeded from the inputs / fixed constants; the
\* selector of the initial-state gate (main.rs) is enabled on row 0 and on no
\* other row; the step selector is enabled on row 0 as well, and on every
\* later row that has a successor row.
C17_FirstRowSeededAndStepped ==
    FirstRowAssigned =>
        /\ FirstRowSeeded
        /\ 0 \in selector
        /\ Built => \A row \in DOMAIN advice :
                       row \in selector <=> row + 1 \in DOMAIN advice

\* C17 witness: main.rs after assign_first_row: both selectors on row 0
C17_Witness ==
    /\ circuit = "main" /\ pc = "last_computational"
    /\ first_row_selector = {0} /\ selector = {0}
    /\ advice[0] = [n |-> 2, l |-> 1, r |-> 1, s |-> 1]

\* C18: fib_dynamic.rs, any field value n: on every assigned row n_inv is the
\* inverse of the counter when the counter is nonzero and 0 when it is 0, so
\* is_zero is 1 on rows with counter 0 and 0 on the others; synthesize never
\* aborts and assigns all rows; for n = 0 every row holds counter 0 and
\* r = n_1.
C18_InverseOfZeroConvention ==
    circuit = "dynamic" =>
        /\ pc \in {"setup", "next_row", "expose", "verify", "done"}
        /\ Built => DOMAIN advice = 0..(Dyn_MAX_N - 1)
        /\ \A row \in DOMAIN advice :
              /\ advice[row].n # 0 => Mul(advice[row].n, advice[row].n_inv) = 1
              /\ advice[row].n = 0 => advice[row].n_inv = 0
              /\ Dyn_IsNZero(advice[row]) = Bit(advice[row].n = 0)
              /\ circ.n = 0 => advice[row].n = 0 /\ advice[row].r = circ.n_1

\* C18 witness: the trace built for n = 0: n_inv = 0 and is_zero = 1 down to
\* the last row
C18_Witness ==
    /\ Built /\ circuit = "dynamic" /\ circ.n = 0 /\ circ.n_1 = 2
    /\ advice[0].n_inv = 0 /\ Dyn_IsNZero(advice[0]) = 1
    /\ advice[Dyn_MAX_N - 1] = [n |-> 0, l |-> 2, r |-> 2, n_inv |-> 0]

\* C20: main.rs, circuit built for n, 2 <= n < MAX_N: the check against the
\* public inputs [m, v] succeeds only if m = n and v = fib(n).
C20_PublicCounterMustBeN ==
    (circuit = "main" /\ pc = "done" /\ circ.n \in 2..(Main_MAX_N - 1)
        /\ verdict = "ok") =>
        /\ instance[1] = circ.n
        /\ instance[2] = Fib(circ.n)

\* the advice columns of the running padded circuit
AdviceColumns ==
    IF circuit = "main" THEN {"n", "l", "r", "s"} ELSE {"n", "l", "r", "n_inv"}

\* the highest row offset the builder assigned
LastAssignedRow == CHOOSE i \in DOMAIN advice : \A j \in DOMAIN advice : j <= i

\* C21: next-row queries stay inside the assigned trace: in both padded
\* circuits, 0 < n < MAX_N, every row on which the step selector is enabled
\* (rows 0..MAX_N-2 in fib_dynamic.rs, the fib_selector rows in main.rs) is
\* assigned and has every advice cell of its successor row assigned, and the
\* last assigned row has no step selector enabled.
C21_NextRowAssigned ==
    (Built /\ (Dyn_InRange \/ Main_InRange)) =>
        /\ selector # {}
        /\ circuit = "dynamic" => selector = 0..(Dyn_MAX_N - 2)
        /\ \A row \in selector :
              /\ row \in DOMAIN advice
              /\ row + 1 \in DOMAIN advice
              /\ AdviceColumns \subseteq DOMAIN advice[row + 1]
        /\ LastAssignedRow \notin selector

\* C21 witness: main.rs built for n = 1, whose trace is one row longer: the
\* selector reaches row MAX_N and row MAX_N + 1 is assigned without it
C21_Witness ==
    /\ Built /\ circuit = "main" /\ circ.n = 1
    /\ Main_MAX_N \in selector
    /\ LastAssignedRow = Main_MAX_N + 1
    /\ DOMAIN advice[Main_MAX_N + 1] = {"n", "l", "r", "s"}

(***************************************************************************)
(* Initial states and specification.                                       *)
(***************************************************************************)
NoCell == <<"none", 0>>

NoCells == [initial_n |-> NoCell, l0 |-> NoCell, l1 |-> NoCell, l |-> NoCell,
            r |-> NoCell, n |-> NoCell, initial_a |-> NoCell,
            initial_b |-> NoCell, b |-> NoCell, c |-> NoCell]

Seeds == 0..MaxSeed

\* the counter n of fib_dynamic.rs is any field value
Dyn_Inputs == F

NoProver ==
    /\ prow = 0
    /\ pprev = ZeroRow
    /\ pcur = ZeroRow
    /\ gadget = [evaluated |-> FALSE, gate |-> 0, is_zero |-> 0]

InitCommon ==
    /\ pc = "setup"
    /\ offset = 0
    /\ iter = 0
    /\ advice = <<>>
    /\ fixed = <<>>
    /\ selector = {}
    /\ first_row_selector = {}
    /\ copies = {}
    /\ cells = NoCells
    /\ verdict = "none"

InitBuilder == InitCommon /\ NoProver

Dyn_Init ==
    /\ circuit = "dynamic"
    /\ \E n \in Dyn_Inputs, n_0 \in Seeds, n_1 \in Seeds :
          /\ circ = [n |-> n, n_0 |-> n_0, n_1 |-> n_1]
          /\ \E x0 \in {n_0, Add(n_0, 1)}, res \in F :
                instance = <<x0, n_1, n, res>>
    /\ InitBuilder

Main_Inputs == 0..(Main_MAX_N + 1)

Main_Init ==
    /\ circuit = "main"
    /\ \E n \in Main_Inputs :
          /\ circ = [n |-> n, n_0 |-> 0, n_1 |-> 0]
          /\ \E m \in {n, Add(n, 1)}, res \in F : instance = <<m, res>>
    /\ InitBuilder

Simple_Inputs == 0..Simple_MaxN

Simple_Init ==
    /\ circuit = "simple"
    /\ \E n \in Simple_Inputs, n_0 \in Seeds, n_1 \in Seeds :
          /\ circ = [n |-> n, n_0 |-> n_0, n_1 |-> n_1]
          /\ \E x0 \in {n_0, Add(n_0, 1)}, res \in F :
                instance = <<x0, n_1, res>>
    /\ InitBuilder

Init == Dyn_Init \/ Main_Init \/ Simple_Init

Next ==
    \/ Dyn_AssignSetup
    \/ Dyn_AssignNextRow
    \/ Dyn_ExposePublic
    \/ Dyn_Check
    \/ Main_AssignFirstRow
    \/ Main_AssignComputationalRow
    \/ Main_AssignLastComputationalRow
    \/ Main_AssignPaddingRow
    \/ Main_AssignLastPaddingRow
    \/ Main_ExposePublic
    \/ Main_Check
    \/ Simple_AssignSetup
    \/ Simple_AssignRow
    \/ Simple_ExposePublic
    \/ Simple_Check

Spec == Init /\ [][Next]_vars

(***************************************************************************)
(* The zero-test gadget of fib_dynamic.rs on every pair (n, n_inv).        *)
(***************************************************************************)
Gadget_Init ==
    /\ circuit = "dynamic"
    /\ circ = [n |-> 0, n_0 |-> 0, n_1 |-> 0]
    /\ instance = <<0, 0, 0, 0>>
    /\ InitCommon
    /\ prow = 0
    /\ pprev = ZeroRow
    /\ \E n \in F, n_inv \in F :
          pcur = [n |-> n, l |-> 0, r |-> 0, n_inv |-> n_inv]
    /\ gadget = [evaluated |-> FALSE, gate |-> 0, is_zero |-> 0]

\* the gate "n inv" and the expression is_n_zero evaluated on an enabled row
Gadget_Evaluate ==
    /\ ~gadget.evaluated
    /\ gadget' = [evaluated |-> TRUE,
                  gate |-> Dyn_GateNInv(1, pcur)[1],
                  is_zero |-> Dyn_IsNZero(pcur)]
    /\ UNCHANGED <<circuit, circ, instance, pc, offset, iter, advice, fixed,
                   selector, first_row_selector, copies, cells, verdict,
                   prow, pprev, pcur>>

Gadget_Next == Gadget_Evaluate

GadgetSpec == Gadget_Init /\ [][Gadget_Next]_vars

\* C5: the gate n * (1 - n * n_inv) = 0 holds exactly when n = 0 or n_inv is
\* the inverse of n; when it holds, is_zero = 1 - n * n_inv is 1 for n = 0
\* and 0 for n # 0; for n # 0 every other n_inv violates the gate.
C5_ZeroTestGadget ==
    gadget.evaluated =>
        /\ gadget.gate = 0 <=> (pcur.n = 0 \/ Mul(pcur.n, pcur.n_inv) = 1)
        /\ gadget.gate = 0 => gadget.is_zero = (IF pcur.n = 0 THEN 1 ELSE 0)
        /\ (pcur.n # 0 /\ pcur.n_inv # Invert(pcur.n)) => gadget.gate # 0
        /\ (pcur.n # 0 /\ gadget.is_zero = 0) => pcur.n_inv = Invert(pcur.n)

\* C5 witness: a nonzero n with its inverse passes the gate with is_zero = 0
C5_Witness ==
    /\ gadget.evaluated
    /\ pcur.n = 2 /\ pcur.n_inv # 0 /\ Mul(pcur.n, pcur.n_inv) = 1
    /\ gadget.gate = 0 /\ gadget.is_zero = 0

(***************************************************************************)
(* fib_dynamic.rs: every assignment of the columns that the gates accept.  *)
(* Row 0 is arbitrary; each further row is any row for which the gates of  *)
(* the row before it, whose selector is enabled, evaluate to zero.         *)
(***************************************************************************)
\* the rows on which assign_setup and assign_next_row enable the selector
Dyn_SelectorRows ==
    {0} \cup {o + 1 : o \in {x \in 0..(Dyn_MAX_N - 2) : Dyn_EnablesSelector(x)}}

Dyn_Rows == [n : F, l : F, r : F, n_inv : F]

\* both gates of fib_dynamic.rs on a row `cur` followed by the row `nxt`
Dyn_RowGatesHold(s, cur, nxt) ==
    /\ AllZero(Dyn_GateNInv(s, cur))
    /\ AllZero(Dyn_GateFib(s, cur, nxt))

DynGate_Init ==
    /\ circuit = "dynamic"
    /\ circ = [n |-> 0, n_0 |-> 0, n_1 |-> 0]
    /\ instance = <<0, 0, 0, 0>>
    /\ InitCommon
    /\ prow = 0
    /\ pprev = ZeroRow
    /\ pcur \in Dyn_Rows
    /\ gadget = [evaluated |-> FALSE, gate |-> 0, is_zero |-> 0]

\* the assignment gets its next row: any row the gates of row prow accept
\* (the polynomials are tried column by column, then all together)
Dyn_ProverAssignRow ==
    /\ circuit = "dynamic"
    /\ prow + 1 < Dyn_MAX_N
    /\ prow < GateRows
    /\ LET s == Bit(prow \in Dyn_SelectorRows) IN
       /\ AllZero(Dyn_GateNInv(s, pcur))
       /\ \E l2 \in F :
          /\ Dyn_GateFib(s, pcur, [ZeroRow EXCEPT !.l = l2])[1] = 0
          /\ \E n2 \in F :
             /\ Dyn_GateFib(s, pcur, [ZeroRow EXCEPT !.n = n2])[3] = 0
             /\ Dyn_GateFib(s, pcur, [ZeroRow EXCEPT !.n = n2])[5] = 0
             /\ \E r2 \in F :
                /\ Dyn_GateFib(s, pcur, [ZeroRow EXCEPT !.r = r2])[2] = 0
                /\ Dyn_GateFib(s, pcur, [ZeroRow EXCEPT !.r = r2])[4] = 0
                /\ \E inv2 \in F :
                   LET nxt == [n |-> n2, l |-> l2, r |-> r2, n_inv |-> inv2]
                   IN /\ Dyn_RowGatesHold(s, pcur, nxt)
                      /\ pcur' = nxt
    /\ pprev' = pcur
    /\ prow' = prow + 1
    /\ UNCHANGED <<circuit, circ, instance, pc, offset, iter, advice, fixed,
                   selector, first_row_selector, copies, cells, verdict,
                   gadget>>

DynGate_Next == Dyn_ProverAssignRow

DynGateSpec == DynGate_Init /\ [][DynGate_Next]_vars

\* C8: fib_dynamic.rs, any assignment: when the gates hold on a
\* selector-enabled row with counter 0, the next row has counter 0, r equal to
\* this row's r and l equal to this row's r; with counter # 0 the next row has
\* counter n - 1, l equal to this row's r and r equal to l + r.  A next row
\* whose counter, l or r differs from that is rejected by the gates.
C8_DynGatesForceNextRow ==
    (prow >= 1 /\ prow - 1 \in Dyn_SelectorRows
               /\ Dyn_RowGatesHold(1, pprev, pcur)) =>
        /\ pprev.n = 0 =>
              pcur.n = 0 /\ pcur.r = pprev.r /\ pcur.l = pprev.r
        /\ pprev.n # 0 =>
              /\ pcur.n = Sub(pprev.n, 1)
              /\ pcur.l = pprev.r
              /\ pcur.r = Add(pprev.l, pprev.r)
        /\ \A v \in F :
              /\ v # pcur.n => ~Dyn_RowGatesHold(1, pprev, [pcur EXCEPT !.n = v])
              /\ v # pcur.l => ~Dyn_RowGatesHold(1, pprev, [pcur EXCEPT !.l = v])
              /\ v # pcur.r => ~Dyn_RowGatesHold(1, pprev, [pcur EXCEPT !.r = v])

\* C8 witness: a frozen row accepted after a counter-0 row whose n_inv is not
\* the builder's 0
C8_Witness ==
    /\ prow >= 1 /\ Dyn_RowGatesHold(1, pprev, pcur)
    /\ pprev.n = 0 /\ pprev.n_inv = 3 /\ pprev.l = 1 /\ pprev.r = 2
    /\ pcur.n = 0 /\ pcur.l = 2 /\ pcur.r = 2

(***************************************************************************)
(* main.rs: every assignment of the columns that the check accepts.        *)
(* synthesize fixes the shape of the circuit (selectors, fixed column,     *)
(* copy constraints, public bindings); the values of the advice cells are  *)
(* then chosen freely, row by row, among those for which the gates of the  *)
(* row before evaluate to zero and the copy constraints into the new row   *)
(* hold.  An assignment that reaches the last row is accepted.             *)
(***************************************************************************)
\* the cells a copy constraint ties to `cell`
CopyPartners(cell) ==
    {c[2] : c \in {d \in copies : d[1] = cell}} \cup
    {c[1] : c \in {d \in copies : d[2] = cell}}

\* the copy constraints on the cell (col, row) allow the value v, the row
\* before being `before`; constraints with a later row are met when that row
\* is assigned (the circuits copy only from the row before)
CopyAllows(col, row, before, v) ==
    \A q \in CopyPartners(Cell(col, row)) :
        CASE q[1] \in {"instance", "constant"} ->
                 CellValue(advice, instance, q) = v
          [] q[2] = row - 1 -> before[q[1]] = v
          [] q[2] > row -> TRUE
          [] OTHER -> FALSE

\* all four gates of main.rs on the row at offset `row` followed by `nxt`
Main_RowGatesHold(row, cur, nxt) ==
    LET fib_s == Bit(row \in selector)
        first_row == Bit(row \in first_row_selector)
    IN /\ AllZero(Main_GateStartStatus(first_row, QueryFixed(fixed, row), cur))
       /\ AllZero(Main_GateCustomSelector(fib_s, cur, nxt))
       /\ AllZero(Main_GateDecreasingCounter(fib_s, cur, nxt))
       /\ AllZero(Main_GateFib(fib_s, cur, nxt))

MainProver_Init ==
    /\ circuit = "main"
    /\ \E n \in 2..(Main_MAX_N - 1) :
          /\ circ = [n |-> n, n_0 |-> 0, n_1 |-> 0]
          /\ \E res \in F : instance = <<n, res>>
    /\ InitBuilder

\* row 0 of the assignment: any values the copy constraints on row 0 allow
Main_ProverBegin ==
    /\ circuit = "main" /\ pc = "verify"
    /\ \E n2 \in {v \in F : CopyAllows("n", 0, ZeroRow, v)},
          l2 \in {v \in F : CopyAllows("l", 0, ZeroRow, v)},
          r2 \in {v \in F : CopyAllows("r", 0, ZeroRow, v)},
          s2 \in {v \in F : CopyAllows("s", 0, ZeroRow, v)} :
          pcur' = [n |-> n2, l |-> l2, r |-> r2, s |-> s2]
    /\ prow' = 0
    /\ pprev' = ZeroRow
    /\ pc' = "assign"
    /\ UNCHANGED <<circuit, circ, instance, offset, iter, advice, fixed,
                   selector, first_row_selector, copies, cells, verdict,
                   gadget>>

\* the next row of the assignment: any values for which the gates of row prow
\* hold and which the copy constraints allow
Main_ProverAssignRow ==
    /\ circuit = "main" /\ pc = "assign"
    /\ prow + 1 \in DOMAIN advice
    /\ LET fib_s == Bit(prow \in selector)
           row == prow + 1
       IN
       \E n2 \in {v \in F : CopyAllows("n", row, pcur, v)} :
       /\ AllZero(Main_GateDecreasingCounter(fib_s, pcur,
                                             [ZeroRow EXCEPT !.n = n2]))
       /\ \E r2 \in {v \in F : CopyAllows("r", row, pcur, v)} :
          /\ AllZero(Main_GateFib(fib_s, pcur, [ZeroRow EXCEPT !.r = r2]))
          /\ \E s2 \in {v \in F : CopyAllows("s", row, pcur, v)} :
             /\ AllZero(Main_GateCustomSelector(fib_s, pcur,
                                                [ZeroRow EXCEPT !.s = s2]))
             /\ \E l2 \in {v \in F : CopyAllows("l", row, pcur, v)} :
                LET nxt == [n |-> n2, l |-> l2, r |-> r2, s |-> s2]
                IN /\ Main_RowGatesHold(prow, pcur, nxt)
                   /\ pcur' = nxt
    /\ pprev' = pcur
    /\ prow' = prow + 1
    /\ UNCHANGED <<circuit, circ, instance, pc, offset, iter, advice, fixed,
                   selector, first_row_selector, copies, cells, verdict,
                   gadget>>

\* the last assigned row is reached: the check has nothing left to reject
Main_ProverFinish ==
    /\ circuit = "main" /\ pc = "assign"
    /\ prow + 1 \notin DOMAIN advice
    /\ prow \notin selector
    /\ Main_RowGatesHold(prow, pcur, ZeroRow)
    /\ verdict' = "ok"
    /\ pc' = "done"
    /\ UNCHANGED <<circuit, circ, instance, offset, iter, advice, fixed,
                   selector, first_row_selector, copies, cells, prow, pprev,
                   pcur, gadget>>

MainProver_Next ==
    \/ Main_AssignFirstRow
    \/ Main_AssignComputationalRow
    \/ Main_AssignLastComputationalRow
    \/ Main_AssignPaddingRow
    \/ Main_AssignLastPaddingRow
    \/ Main_ExposePublic
    \/ Main_ProverBegin
    \/ Main_ProverAssignRow
    \/ Main_ProverFinish

MainProverSpec == MainProver_Init /\ [][MainProver_Next]_vars

\* C9: the explicit-flag encoding of main.rs is sound: every assignment that
\* satisfies the four gates, the copy constraints and the public binding
\* counter[0] = n has fib(n) in the r cell bound to instance[1], so the check
\* accepts no public result other than fib(n).
C9_MainSound ==
    (circuit = "main" /\ pc = "done" /\ verdict = "ok"
        /\ circ.n \in 1..(Main_MAX_N - 1) /\ instance[1] = circ.n) =>
        instance[2] = Fib(circ.n)

\* C15: main.rs padding idempotence: in every assignment the check accepts,
\* a fib_selector-enabled row with counter 0 is followed by a row with counter
\* 0 and the same r; an assignment whose r or counter changes after a
\* counter-0 row is rejected.
C15_MainPaddingIdempotent ==
    (circuit = "main" /\ pc = "done" /\ verdict = "ok"
        /\ prow >= 1 /\ prow - 1 \in selector /\ pprev.n = 0) =>
        /\ pcur.n = 0
        /\ pcur.r = pprev.r

(***************************************************************************)
(* main.rs: every assignment of column s that the gate "custom selector"   *)
(* accepts.  synthesize fixes the rows and the selectors; column s is then *)
(* overwritten row by row with any value for which the gate of the row     *)
(* before evaluates to zero.                                               *)
(***************************************************************************)
MainFlag_Init ==
    /\ circuit = "main"
    /\ \E n \in 1..(Main_MAX_N - 1) :
          /\ circ = [n |-> n, n_0 |-> 0, n_1 |-> 0]
          /\ instance = <<n, 0>>
    /\ InitBuilder

\* the gate "custom selector" of the row at offset `row`, the s cell of the
\* next row holding v
Main_FlagAccepts(row, v) ==
    AllZero(Main_GateCustomSelector(Bit(row \in selector), Query(advice, row),
                                    [ZeroRow EXCEPT !.s = v]))

\* the s cell of row 0 gets any value
Main_FlagBegin ==
    /\ circuit = "main" /\ pc = "verify"
    /\ \E v \in F : advice' = [advice EXCEPT ![0].s = v]
    /\ prow' = 0
    /\ pc' = "flag"
    /\ UNCHANGED <<circuit, circ, instance, offset, iter, fixed, selector,
                   first_row_selector, copies, cells, verdict, pprev, pcur,
                   gadget>>

\* the s cell of the next row gets any value the gate of row prow accepts
Main_FlagAssignRow ==
    /\ circuit = "main" /\ pc = "flag"
    /\ prow + 1 \in DOMAIN advice
    /\ \E v \in F :
          /\ Main_FlagAccepts(prow, v)
          /\ advice' = [advice EXCEPT ![prow + 1].s = v]
    /\ prow' = prow + 1
    /\ UNCHANGED <<circuit, circ, instance, pc, offset, iter, fixed, selector,
                   first_row_selector, copies, cells, verdict, pprev, pcur,
                   gadget>>

MainFlag_Next ==
    \/ Main_AssignFirstRow
    \/ Main_AssignComputationalRow
    \/ Main_AssignLastComputationalRow
    \/ Main_AssignPaddingRow
    \/ Main_AssignLastPaddingRow
    \/ Main_ExposePublic
    \/ Main_FlagBegin
    \/ Main_FlagAssignRow

MainFlagSpec == MainFlag_Init /\ [][MainFlag_Next]_vars

\* the gate "custom selector" holds on every fib_selector-enabled row
Main_FlagGateHolds ==
    \A row \in selector :
        AllZero(Main_GateCustomSelector(1, Query(advice, row),
                                        Query(advice, row + 1)))

\* C14: main.rs gate "custom selector", any assignment of column s: when the
\* gate holds on every fib_selector-enabled row, s is 0 or 1 on each of those
\* rows, and once s = 0 on an enabled row, s = 0 on every later row through
\* the last assigned row.
C14_FlagBooleanMonotone ==
    (circuit = "main" /\ pc = "flag" /\ Main_FlagGateHolds) =>
        /\ \A row \in selector : advice[row].s \in {0, 1}
        /\ \A row \in selector : advice[row].s = 0 =>
              \A j \in DOMAIN advice : j > row => advice[j].s = 0

\* C14 witness: a complete assignment of s other than the builder's: s falls
\* to 0 on row 1 of the circuit for n = 4 and stays 0 to the last row
C14_Witness ==
    /\ circuit = "main" /\ pc = "flag" /\ circ.n = 4
    /\ Main_FlagGateHolds
    /\ prow + 1 \notin DOMAIN advice
    /\ advice[0].s = 1 /\ advice[1].s = 0 /\ advice[prow].s = 0

(***************************************************************************)
(* main.rs: the gate "start status" on every (l, r, s) of the first row.   *)
(***************************************************************************)
StartGate_Init ==
    /\ circuit = "main"
    /\ circ = [n |-> 2, n_0 |-> 0, n_1 |-> 0]
    /\ instance = <<2, 0>>
    /\ InitCommon
    /\ prow = 0
    /\ pprev = ZeroRow
    /\ \E l \in F, r \in F, s \in F :
          pcur = [n |-> 2, l |-> l, r |-> r, s |-> s]
    /\ gadget = [evaluated |-> FALSE, gate |-> 0, is_zero |-> 0]

\* the gate "start status" evaluated on row 0, whose selector and fixed cell
\* assign_first_row has set, for the values (l, r, s) of pcur
StartGate_Evaluate ==
    /\ circuit = "main" /\ pc # "setup"
    /\ ~gadget.evaluated
    /\ gadget' = [evaluated |-> TRUE,
                  gate |-> Main_GateStartStatus(Bit(0 \in first_row_selector),
                                                QueryFixed(fixed, 0), pcur)[1],
                  is_zero |-> 0]
    /\ UNCHANGED <<circuit, circ, instance, pc, offset, iter, advice, fixed,
                   selector, first_row_selector, copies, cells, verdict,
                   prow, pprev, pcur>>

StartGate_Next ==
    \/ Main_AssignFirstRow
    \/ StartGate_Evaluate

StartGateSpec == StartGate_Init /\ [][StartGate_Next]_vars

\* C16: main.rs gate "start status": on a row with the first_row selector
\* enabled and fixed = 1, the gate is satisfied only if l = 1, r = 1 and
\* s = 1.
C16_StartStatusForcesAll ==
    (circuit = "main" /\ gadget.evaluated /\ 0 \in first_row_selector
        /\ QueryFixed(fixed, 0) = 1 /\ gadget.gate = 0) =>
        /\ pcur.l = 1
        /\ pcur.r = 1
        /\ pcur.s = 1

(***************************************************************************)
(* fib_dynamic.rs: every assignment of the columns that satisfies the      *)
(* gates and the bindings of the seeds and the counter.  synthesize fixes  *)
(* the rows, the selectors and the bindings and assigns its own trace;     *)
(* a second assignment is then chosen freely, row by row, among the rows   *)
(* for which the gates evaluate to zero and the bindings of instance[0],   *)
(* instance[1] and instance[2] hold, and is compared with the builder's.   *)
(***************************************************************************)
DynWitness_Init ==
    /\ circuit = "dynamic"
    /\ \E n \in Dyn_Inputs, n_0 \in Seeds, n_1 \in Seeds :
          /\ circ = [n |-> n, n_0 |-> n_0, n_1 |-> n_1]
          /\ \E res \in F : instance = <<n_0, n_1, n, res>>
    /\ InitBuilder

\* the bindings of l[0], l[1] and n[0] to the public inputs allow the value v
\* in the cell (col, row)
Dyn_SeedBindingAllows(col, row, v) ==
    \A c \in copies :
        (c[1] = Cell(col, row) /\ c[2][1] = "instance" /\ c[2][2] # 3) =>
            CellValue(advice, instance, c[2]) = v

\* the gate "n inv" on the row `cur` at offset `row`
Dyn_NInvHoldsOn(row, cur) ==
    AllZero(Dyn_GateNInv(Bit(row \in selector), cur))

\* row 0 of the second assignment
Dyn_WitnessBegin ==
    /\ circuit = "dynamic" /\ pc = "verify"
    /\ \E n2 \in {v \in F : Dyn_SeedBindingAllows("n", 0, v)},
          l2 \in {v \in F : Dyn_SeedBindingAllows("l", 0, v)},
          r2 \in {v \in F : Dyn_SeedBindingAllows("r", 0, v)} :
          \E inv2 \in F :
             LET row0 == [n |-> n2, l |-> l2, r |-> r2, n_inv |-> inv2]
             IN /\ Dyn_NInvHoldsOn(0, row0)
                /\ pcur' = row0
    /\ prow' = 0
    /\ pprev' = ZeroRow
    /\ pc' = "assign"
    /\ UNCHANGED <<circuit, circ, instance, offset, iter, advice, fixed,
                   selector, first_row_selector, copies, cells, verdict,
                   gadget>>

\* the next row of the second assignment: any row for which the gates of row
\* prow and the gate "n inv" of the new row hold and which the bindings allow
Dyn_WitnessAssignRow ==
    /\ circuit = "dynamic" /\ pc = "assign"
    /\ prow + 1 \in DOMAIN advice
    /\ LET s == Bit(prow \in selector)
           row == prow + 1
       IN
       \E l2 \in {v \in F : Dyn_SeedBindingAllows("l", row, v)} :
       /\ Dyn_GateFib(s, pcur, [ZeroRow EXCEPT !.l = l2])[1] = 0
       /\ \E n2 \in {v \in F : Dyn_SeedBindingAllows("n", row, v)} :
          /\ Dyn_GateFib(s, pcur, [ZeroRow EXCEPT !.n = n2])[3] = 0
          /\ Dyn_GateFib(s, pcur, [ZeroRow EXCEPT !.n = n2])[5] = 0
          /\ \E r2 \in {v \in F : Dyn_SeedBindingAllows("r", row, v)} :
             /\ Dyn_GateFib(s, pcur, [ZeroRow EXCEPT !.r = r2])[2] = 0
             /\ Dyn_GateFib(s, pcur, [ZeroRow EXCEPT !.r = r2])[4] = 0
             /\ \E inv2 \in F :
                LET nxt == [n |-> n2, l |-> l2, r |-> r2, n_inv |-> inv2]
                IN /\ Dyn_RowGatesHold(s, pcur, nxt)
                   /\ Dyn_NInvHoldsOn(row, nxt)
                   /\ pcur' = nxt
    \* the row before is kept without its n_inv cell, which no gate of a
    \* later row queries
    /\ pprev' = [pcur EXCEPT !.n_inv = 0]
    /\ prow' = prow + 1
    /\ UNCHANGED <<circuit, circ, instance, pc, offset, iter, advice, fixed,
                   selector, first_row_selector, copies, cells, verdict,
                   gadget>>

\* the last row is reached: the binding of the l cell of the last row to
\* instance[3] decides the check
Dyn_WitnessFinish ==
    /\ circuit = "dynamic" /\ pc = "assign"
    /\ prow + 1 \notin DOMAIN advice
    /\ verdict' = IF cells.l = Cell("l", prow) /\ pcur.l = instance[4]
                  THEN "ok" ELSE "err"
    /\ pc' = "done"
    /\ UNCHANGED <<circuit, circ, instance, offset, iter, advice, fixed,
                   selector, first_row_selector, copies, cells, prow, pprev,
                   pcur, gadget>>

DynWitness_Next ==
    \/ Dyn_AssignSetup
    \/ Dyn_AssignNextRow
    \/ Dyn_ExposePublic
    \/ Dyn_WitnessBegin
    \/ Dyn_WitnessAssignRow
    \/ Dyn_WitnessFinish

DynWitnessSpec == DynWitness_Init /\ [][DynWitness_Next]_vars

\* the rows a and b agree on the counter, l and r
SameState(a, b) == a.n = b.n /\ a.l = b.l /\ a.r = b.r

\* C19: fib_dynamic.rs witness uniqueness: an assignment that satisfies the
\* gates "n inv" and "fib" on the selector rows and the bindings l[0] = seed0,
\* l[1] = seed1, counter[0] = n agrees with the builder's trace on the counter,
\* l and r of every row; it can differ only in n_inv, on rows whose counter is
\* 0 and on the unselected last row; the value bound to instance[3] is the
\* builder's.
C19_DynWitnessUnique ==
    (circuit = "dynamic" /\ pc \in {"assign", "done"}) =>
        /\ pcur.n = advice[prow].n
        /\ pcur.l = advice[prow].l
        /\ (pcur.n # 0 /\ prow \in selector) =>
              pcur.n_inv = advice[prow].n_inv
        /\ prow >= 1 =>
              /\ pcur.r = advice[prow].r
              /\ SameState(pprev, advice[prow - 1])
        /\ pc = "done" =>
              /\ prow = Dyn_MAX_N - 1
              /\ SameState(pcur, advice[Dyn_MAX_N - 1])
              /\ pcur.l = Value(cells.l)
              /\ verdict = "ok" <=> instance[4] = Value(cells.l)

\* C19 witness: an accepted assignment for n = 2, seeds (0, 1) whose n_inv
\* on the last row is not the builder's 0, with the builder's counter, l, r
C19_Witness ==
    /\ circuit = "dynamic" /\ pc = "done" /\ verdict = "ok"
    /\ circ = [n |-> 2, n_0 |-> 0, n_1 |-> 1]
    /\ pprev = [n |-> 0, l |-> 2, r |-> 2, n_inv |-> 0]
    /\ pcur = [n |-> 0, l |-> 2, r |-> 2, n_inv |-> 7]
    /\ advice[prow].n_inv = 0
    /\ instance[4] = 2

====
